---- MODULE Spec2Model ----
(***************************************************************************)
(* Model of utils/map_display.py: the map renderer create_itinerary_map    *)
(* (with _create_legend_html) and the place extractor                      *)
(* extract_places_from_plan (with _extract_place_info).                    *)
(*                                                                         *)
(* Python values:                                                          *)
(*   - an optional value is a sequence of length at most one: None (or an  *)
(*     absent dict key) is <<>>, a present value v is <<v>>;               *)
(*   - a float is an exact fraction [num |-> n, den |-> d], so that the    *)
(*     mean of coordinates is the quotient sum/len and nothing is rounded; *)
(*   - a folium.Map is the group of variables mapLocation, mapZoom,        *)
(*     markers, polylines, legend, fitted.                                 *)
(***************************************************************************)
EXTENDS Integers, Sequences, FiniteSets, TLC

VARIABLES
    \* ---- create_itinerary_map: arguments
    places, center, zoom_start,
    \* ---- create_itinerary_map: locals and the map under construction
    pc, valid_places, i, coordinates_for_line, current_day, day_coords,
    mapLocation, mapZoom, markers, polylines, legend, fitted, meanComputed,
    \* ---- extract_places_from_plan: arguments
    plan, places_client,
    \* ---- extract_places_from_plan: locals, result and the collaborator's log
    epc, pos, place, result, kept, calls, escaped

renderVars == <<places, center, zoom_start, pc, valid_places, i,
                coordinates_for_line, current_day, day_coords, mapLocation,
                mapZoom, markers, polylines, legend, fitted, meanComputed>>

extractVars == <<plan, places_client, epc, pos, place, result, kept, calls,
                 escaped>>

vars == <<places, center, zoom_start, pc, valid_places, i,
          coordinates_for_line, current_day, day_coords, mapLocation,
          mapZoom, markers, polylines, legend, fitted, meanComputed,
          plan, places_client, epc, pos, place, result, kept, calls, escaped>>

-----------------------------------------------------------------------------
(* Bounds of the model *)

\* longest places sequence handed to create_itinerary_map
MaxPlaces == 3

\* most days of an itinerary
MaxDays == 2

\* most activities of an itinerary, all days and slots together
MaxActivities == 2

-----------------------------------------------------------------------------
(* Python values *)

None == <<>>

Some(v) == <<v>>

Frac(n, d) == [num |-> n, den |-> d]

\* a whole number of degrees as a float
Deg(n) == Frac(n, 1)

\* bool(x) of an optional float: None and 0.0 are falsy
Truthy(o) == o # None /\ o[1].num # 0

\* dict.get(key, default) where o is the entry of key (None: key absent)
Get(o, default) == IF o = None THEN default ELSE o[1]

RECURSIVE SumSeq(_)
SumSeq(s) == IF s = <<>> THEN 0 ELSE Head(s) + SumSeq(Tail(s))

\* sorted(S) of a finite set of integers
RECURSIVE sorted(_)
sorted(S) ==
    IF S = {} THEN <<>>
    ELSE LET least == CHOOSE x \in S : \A y \in S : x <= y
         IN  <<least>> \o sorted(S \ {least})

Range(s) == {s[k] : k \in 1..Len(s)}

-----------------------------------------------------------------------------
(* create_itinerary_map *)

\* default of the zoom_start parameter
DefaultZoom == 12

\* variant: latitude and longitude of the fallback exchanged
FallbackLocation_Swapped == <<Frac(23522, 10000), Frac(488566, 10000)>>

\* the location of the two fallback maps, [48.8566, 2.3522]
FallbackLocation == <<Frac(488566, 10000), Frac(23522, 10000)>>

day_colors ==
    << "#e74c3c", "#3498db", "#2ecc71", "#9b59b6", "#f39c12", "#1abc9c",
       "#e91e63" >>

\* variant: the palette indexed by day instead of day - 1
ColorIndex_OffByOne(day) == day % Len(day_colors)

\* day_colors[(day - 1) % len(day_colors)], on the 1-based tuple
ColorIndex(day) == (day - 1) % Len(day_colors)

ColorOf(day) == day_colors[ColorIndex(day) + 1]

\* the filter of lines 38-41: p.get('latitude') and p.get('longitude')
HasValidCoordinates(p) == Truthy(p.latitude) /\ Truthy(p.longitude)

FilterValid(ps) == SelectSeq(ps, HasValidCoordinates)

\* place.get('day', 1)
DayOf(p) == Get(p.day, 1)

\* [place['latitude'], place['longitude']] of a filtered place
CoordOf(p) == <<p.latitude[1], p.longitude[1]>>

\* sum(p[key] for p in valid_places) / len(valid_places), whole-degree inputs
MeanOf(ps, key) ==
    Frac(SumSeq([k \in 1..Len(ps) |-> ps[k][key][1].num]), Len(ps))

\* variant: one legend entry per place, neither deduplicated nor sorted
LegendDays_PerPlace(ps) == [k \in 1..Len(ps) |-> DayOf(ps[k])]

\* _create_legend_html: one entry per day of sorted(set(days)), in that order
LegendDays(ps) == sorted({DayOf(ps[k]) : k \in 1..Len(ps)})

LegendEntries(ps) ==
    LET days == LegendDays(ps)
    IN  [k \in 1..Len(days) |-> [day |-> days[k], color |-> ColorOf(days[k])]]

\* ---- the inputs
Days == {None, Some(1), Some(7), Some(8), Some(14)}

\* place dictionaries that pass the filter of lines 38-41
RenderableDicts ==
    [latitude : {Some(Deg(3)), Some(Deg(5))}, longitude : {Some(Deg(4))},
     day : Days]

\* place dictionaries with a coordinate that is missing or zero
OtherDicts ==
    {[latitude |-> c[1], longitude |-> c[2], day |-> Some(1)] :
        c \in {<<None, None>>, <<None, Some(Deg(4))>>,
               <<Some(Deg(3)), None>>, <<Some(Deg(0)), Some(Deg(4))>>,
               <<Some(Deg(3)), Some(Deg(0))>>, <<Some(Deg(0)), Some(Deg(0))>>}}

PlaceDicts == RenderableDicts \cup OtherDicts

RECURSIVE SeqsUpTo(_, _)
SeqsUpTo(S, n) ==
    IF n = 0 THEN {<<>>}
    ELSE LET shorter == SeqsUpTo(S, n - 1)
         IN  shorter \cup {Append(s, x) : s \in shorter, x \in S}

Centers == {None, <<Deg(40), Deg(-3)>>}

Zooms == {DefaultZoom, 5}

RenderIdle ==
    /\ pc = "idle"
    /\ places = <<>> /\ center = None /\ zoom_start = DefaultZoom
    /\ valid_places = <<>> /\ i = 0 /\ coordinates_for_line = <<>>
    /\ current_day = 0 /\ day_coords = <<>>
    /\ mapLocation = None /\ mapZoom = 0
    /\ markers = <<>> /\ polylines = <<>> /\ legend = <<>>
    /\ fitted = FALSE /\ meanComputed = FALSE

\* the call: any places list, center and zoom_start
RenderInit ==
    /\ pc = "start"
    /\ places \in SeqsUpTo(PlaceDicts, MaxPlaces)
    /\ center \in Centers
    /\ zoom_start \in Zooms
    /\ valid_places = <<>> /\ i = 0 /\ coordinates_for_line = <<>>
    /\ current_day = 0 /\ day_coords = <<>>
    /\ mapLocation = None /\ mapZoom = 0
    /\ markers = <<>> /\ polylines = <<>> /\ legend = <<>>
    /\ fitted = FALSE /\ meanComputed = FALSE

\* lines 33-35: if not places: return the fallback map
ReturnEmptyMap ==
    /\ pc = "start"
    /\ places = <<>>
    /\ mapLocation' = FallbackLocation
    /\ mapZoom' = zoom_start
    /\ pc' = "done"
    /\ UNCHANGED <<places, center, zoom_start, valid_places, i,
                   coordinates_for_line, current_day, day_coords, markers,
                   polylines, legend, fitted, meanComputed>>
    /\ UNCHANGED extractVars

\* lines 37-44: the filter leaves nothing: return the fallback map
ReturnNoValidMap ==
    /\ pc = "start"
    /\ places # <<>>
    /\ FilterValid(places) = <<>>
    /\ valid_places' = FilterValid(places)
    /\ mapLocation' = FallbackLocation
    /\ mapZoom' = zoom_start
    /\ pc' = "done"
    /\ UNCHANGED <<places, center, zoom_start, i, coordinates_for_line,
                   current_day, day_coords, markers, polylines, legend,
                   fitted, meanComputed>>
    /\ UNCHANGED extractVars

\* variant: the mean is computed whatever center is
NeedsMean_Always(c) == TRUE

\* line 47: if center is None
NeedsMean(c) == c = None

\* lines 46-50: the center the map is created with
CenterFor(c, ps) ==
    IF NeedsMean(c) THEN <<MeanOf(ps, "latitude"), MeanOf(ps, "longitude")>>
    ELSE c

\* lines 37-78: filter, center, folium.Map(...), coordinates_for_line = []
CreateMap ==
    /\ pc = "start"
    /\ places # <<>>
    /\ FilterValid(places) # <<>>
    /\ valid_places' = FilterValid(places)
    /\ meanComputed' = NeedsMean(center)
    /\ mapLocation' = CenterFor(center, FilterValid(places))
    /\ mapZoom' = zoom_start
    /\ coordinates_for_line' = <<>>
    /\ i' = 1
    /\ pc' = "markers"
    /\ UNCHANGED <<places, center, zoom_start, current_day, day_coords,
                   markers, polylines, legend, fitted>>
    /\ UNCHANGED extractVars

\* lines 114-138: the marker of the i-th filtered place
MarkerOf(p, n) ==
    [location |-> CoordOf(p), color |-> ColorOf(DayOf(p)), day |-> DayOf(p),
     label |-> n]

\* lines 80-138: one iteration of the marker loop
AddMarker ==
    /\ pc = "markers"
    /\ i <= Len(valid_places)
    /\ coordinates_for_line' =
           Append(coordinates_for_line, CoordOf(valid_places[i]))
    /\ markers' = Append(markers, MarkerOf(valid_places[i], i))
    /\ i' = i + 1
    /\ UNCHANGED <<places, center, zoom_start, pc, valid_places, current_day,
                   day_coords, mapLocation, mapZoom, polylines, legend,
                   fitted, meanComputed>>
    /\ UNCHANGED extractVars

\* lines 141-144: more than one coordinate: start the grouping by day
BeginLines ==
    /\ pc = "markers"
    /\ i > Len(valid_places)
    /\ Len(coordinates_for_line) > 1
    /\ current_day' = DayOf(valid_places[1])
    /\ day_coords' = <<>>
    /\ i' = 1
    /\ pc' = "lines"
    /\ UNCHANGED <<places, center, zoom_start, valid_places,
                   coordinates_for_line, mapLocation, mapZoom, markers,
                   polylines, legend, fitted, meanComputed>>
    /\ UNCHANGED extractVars

\* line 141 false: no line is drawn
SkipLines ==
    /\ pc = "markers"
    /\ i > Len(valid_places)
    /\ ~(Len(coordinates_for_line) > 1)
    /\ pc' = "legend"
    /\ UNCHANGED <<places, center, zoom_start, valid_places, i,
                   coordinates_for_line, current_day, day_coords, mapLocation,
                   mapZoom, markers, polylines, legend, fitted, meanComputed>>
    /\ UNCHANGED extractVars

\* folium.PolyLine(day_coords, color=day_colors[(current_day - 1) % 7], ...)
PolyLineOf(coords, day) == [points |-> coords, color |-> ColorOf(day)]

\* variant: a line is drawn only once it has two points
DayBoundary_NeedsTwo(day, cur, coords) == day # cur /\ Len(coords) > 1

\* line 150: the day changed and there is something to draw
DayBoundary(day, cur, coords) == day # cur /\ coords # <<>>

\* variant: the new day starts with no carried-over point
Reseed_Empty(coords) == <<>>

\* line 160: day_coords = [day_coords[-1]]
Reseed(coords) == <<coords[Len(coords)]>>

\* lines 146-163: one iteration of the line loop
LineStep ==
    /\ pc = "lines"
    /\ i <= Len(valid_places)
    /\ LET day   == DayOf(valid_places[i])
           coord == CoordOf(valid_places[i])
       IN  IF DayBoundary(day, current_day, day_coords)
           THEN /\ polylines' =
                       Append(polylines, PolyLineOf(day_coords, current_day))
                /\ day_coords' = Append(Reseed(day_coords), coord)
                /\ current_day' = day
           ELSE /\ day_coords' = Append(day_coords, coord)
                /\ UNCHANGED <<polylines, current_day>>
    /\ i' = i + 1
    /\ UNCHANGED <<places, center, zoom_start, pc, valid_places,
                   coordinates_for_line, mapLocation, mapZoom, markers,
                   legend, fitted, meanComputed>>
    /\ UNCHANGED extractVars

\* lines 165-174: the line of the last day
DrawLastLine ==
    /\ pc = "lines"
    /\ i > Len(valid_places)
    /\ polylines' =
           IF day_coords # <<>>
           THEN Append(polylines, PolyLineOf(day_coords, current_day))
           ELSE polylines
    /\ pc' = "legend"
    /\ UNCHANGED <<places, center, zoom_start, valid_places, i,
                   coordinates_for_line, current_day, day_coords, mapLocation,
                   mapZoom, markers, legend, fitted, meanComputed>>
    /\ UNCHANGED extractVars

\* lines 176-184: legend, fit_bounds, return m
AddLegend ==
    /\ pc = "legend"
    /\ legend' = LegendEntries(valid_places)
    /\ fitted' = (Len(coordinates_for_line) > 1)
    /\ pc' = "done"
    /\ UNCHANGED <<places, center, zoom_start, valid_places, i,
                   coordinates_for_line, current_day, day_coords, mapLocation,
                   mapZoom, markers, polylines, meanComputed>>
    /\ UNCHANGED extractVars

RenderNext ==
    \/ ReturnEmptyMap
    \/ ReturnNoValidMap
    \/ CreateMap
    \/ AddMarker
    \/ BeginLines
    \/ SkipLines
    \/ LineStep
    \/ DrawLastLine
    \/ AddLegend

-----------------------------------------------------------------------------
(* extract_places_from_plan *)

\* bool(s) of an optional string: None and '' are falsy
TruthyStr(o) == o # None /\ o[1] # ""

\* ---- the inputs
Activities == [name : {"Louvre"}, location : {None, Some("Paris")}]

NumActivities(day) == Len(day.morning) + Len(day.afternoon) + Len(day.evening)

\* the activity lists of a day with at most n activities
DayPlans(n) ==
    {day \in [morning : SeqsUpTo(Activities, n),
              afternoon : SeqsUpTo(Activities, n),
              evening : SeqsUpTo(Activities, n)] : NumActivities(day) <= n}

\* the itineraries of exactly d days with at most n activities, not numbered
RECURSIVE ItinerariesOf(_, _)
ItinerariesOf(d, n) ==
    IF d = 0 THEN {<<>>}
    ELSE UNION {{<<day>> \o rest :
                    rest \in ItinerariesOf(d - 1, n - NumActivities(day))} :
                day \in DayPlans(n)}

\* day_number of the first day; the days are numbered consecutively
FirstDayNumbers == {1, 2}

Numbered(it, first) ==
    [d \in 1..Len(it) |->
        [day_number |-> first + d - 1, morning |-> it[d].morning,
         afternoon |-> it[d].afternoon, evening |-> it[d].evening]]

\* a TravelPlan, or None
Plans ==
    {None} \cup
    {Some([itinerary |-> Numbered(it, first)]) :
        it \in UNION {ItinerariesOf(d, MaxActivities) : d \in 0..MaxDays},
        first \in FirstDayNumbers}

\* exceptions the collaborator raises; all derive from Exception
ExceptionKinds == {"ConnectionError", "KeyError"}

\* results[0]: 'location' is a dict {'lat': .., 'lng': ..} or null
MatchLocations ==
    {[kind |-> "null", lat |-> None, lng |-> None],
     [kind |-> "dict", lat |-> Some(Deg(3)), lng |-> Some(Deg(4))],
     [kind |-> "dict", lat |-> None, lng |-> Some(Deg(4))]}

Matches == [location : MatchLocations, place_id : {None, Some("pid")}]

\* what search_places returns: no match, or a best match first
SearchResults == {<<>>} \cup {<<mt>> : mt \in Matches}

\* what get_place_photo_url returns
PhotoResults == {None, Some("http://photo")}

\* ---- the walk of lines 290-309
SlotRank(time) ==
    CASE time = "morning" -> 1 [] time = "afternoon" -> 2 [] time = "evening" -> 3

\* one for-loop over a slot of day number d (1-based position in the
\* itinerary): the arguments of each _extract_place_info call; "at" is the
\* activity's place in the itinerary
SlotEntries(day, d, time) ==
    [k \in 1..Len(day[time]) |->
        [activity |-> day[time][k], day_num |-> day.day_number,
         time |-> time, at |-> <<d, SlotRank(time), k>>]]

\* variant: the evening loop placed before the afternoon loop
DayEntries_EveningFirst(day, d) ==
    SlotEntries(day, d, "morning") \o SlotEntries(day, d, "evening")
        \o SlotEntries(day, d, "afternoon")

\* lines 293-309: morning, then afternoon, then evening
DayEntries(day, d) ==
    SlotEntries(day, d, "morning") \o SlotEntries(day, d, "afternoon")
        \o SlotEntries(day, d, "evening")

\* line 290: for day in plan.itinerary, from day d on
RECURSIVE WalkFrom(_, _)
WalkFrom(it, d) ==
    IF d > Len(it) THEN <<>>
    ELSE DayEntries(it[d], d) \o WalkFrom(it, d + 1)

Walk == IF plan = None THEN <<>> ELSE WalkFrom(plan[1].itinerary, 1)

\* lines 322-330: the candidate record
Candidate(e) ==
    [name |-> e.activity.name, day |-> e.day_num, time |-> e.time,
     latitude |-> None, longitude |-> None, photo_url |-> None]

\* line 333: if places_client and activity.location
ShouldLookup(client, activity) == client /\ TruthyStr(activity.location)

\* variant: except ConnectionError
Catches_OnlyNetwork(kind) == kind = "ConnectionError"

\* line 354: except Exception
Catches(kind) == kind \in ExceptionKinds \cup {"AttributeError"}

\* variant: dropped only when both coordinates are missing
Unresolved_Both(p) == p.latitude = None /\ p.longitude = None

\* line 358: no coordinates found
Unresolved(p) == p.latitude = None \/ p.longitude = None

\* line 287: if not plan or not plan.itinerary
NoItinerary(pl) == IF pl = None THEN TRUE ELSE pl[1].itinerary = <<>>

CallEntry(op, e, raised, results) ==
    [op |-> op, at |-> e.at, raised |-> raised,
     nonempty |-> results # <<>>,
     hasId |-> results # <<>> /\ TruthyStr(results[1].place_id),
     resolved |-> /\ results # <<>>
                  /\ results[1].location.lat # None
                  /\ results[1].location.lng # None]

ExtractIdle ==
    /\ epc = "idle"
    /\ plan = None /\ places_client = FALSE
    /\ pos = 0 /\ place = None /\ result = <<>> /\ kept = <<>>
    /\ calls = <<>> /\ escaped = FALSE

\* the call: any plan, with or without a client
ExtractInit ==
    /\ epc = "start"
    /\ plan \in Plans
    /\ places_client \in BOOLEAN
    /\ pos = 0 /\ place = None /\ result = <<>> /\ kept = <<>>
    /\ calls = <<>> /\ escaped = FALSE

\* lines 285-288: places = []; nothing to walk
ReturnNoPlaces ==
    /\ epc = "start"
    /\ NoItinerary(plan)
    /\ epc' = "done"
    /\ UNCHANGED <<plan, places_client, pos, place, result, kept, calls,
                   escaped>>
    /\ UNCHANGED renderVars

\* line 290: enter the loops
BeginWalk ==
    /\ epc = "start"
    /\ ~NoItinerary(plan)
    /\ pos' = 1
    /\ epc' = "loop"
    /\ UNCHANGED <<plan, places_client, place, result, kept, calls, escaped>>
    /\ UNCHANGED renderVars

\* lines 357-361 and 296-297: return None or the place; append it; go on
Finish(p, e) ==
    /\ result' = IF Unresolved(p) THEN result ELSE Append(result, p)
    /\ kept' = IF Unresolved(p) THEN kept ELSE Append(kept, e.at)
    /\ place' = None
    /\ pos' = pos + 1
    /\ epc' = "loop"
    /\ escaped' = escaped

\* an exception of this kind inside the try block of lines 334-355
Raised(kind, p, e) ==
    IF Catches(kind)
    THEN Finish(p, e)
    ELSE /\ escaped' = TRUE
         /\ epc' = "raised"
         /\ UNCHANGED <<place, pos, result, kept>>

\* an activity for which no lookup is made
ActivityWithoutLookup ==
    /\ epc = "loop"
    /\ pos <= Len(Walk)
    /\ ~ShouldLookup(places_client, Walk[pos].activity)
    /\ Finish(Candidate(Walk[pos]), Walk[pos])
    /\ UNCHANGED <<plan, places_client, calls>>
    /\ UNCHANGED renderVars

\* lines 336-339: search_places raises
SearchRaises ==
    /\ epc = "loop"
    /\ pos <= Len(Walk)
    /\ ShouldLookup(places_client, Walk[pos].activity)
    /\ \E kind \in ExceptionKinds :
          /\ calls' = Append(calls, CallEntry("search", Walk[pos], TRUE, <<>>))
          /\ Raised(kind, Candidate(Walk[pos]), Walk[pos])
    /\ UNCHANGED <<plan, places_client>>
    /\ UNCHANGED renderVars

\* lines 336-349: search_places returns
SearchReturns ==
    /\ epc = "loop"
    /\ pos <= Len(Walk)
    /\ ShouldLookup(places_client, Walk[pos].activity)
    /\ \E results \in SearchResults :
          LET e == Walk[pos]
              p == Candidate(e)
          IN  /\ calls' = Append(calls, CallEntry("search", e, FALSE, results))
              /\ IF results = <<>>
                 THEN Finish(p, e)
                 ELSE LET best_match == results[1]
                          location   == best_match.location
                          found      == [p EXCEPT !.latitude = location.lat,
                                                  !.longitude = location.lng]
                      IN  IF location.kind = "null"
                          THEN Raised("AttributeError", p, e)
                          ELSE IF TruthyStr(best_match.place_id)
                               THEN /\ place' = Some(found)
                                    /\ epc' = "photo"
                                    /\ UNCHANGED <<pos, result, kept, escaped>>
                               ELSE Finish(found, e)
    /\ UNCHANGED <<plan, places_client>>
    /\ UNCHANGED renderVars

\* line 350: get_place_photo_url raises
PhotoRaises ==
    /\ epc = "photo"
    /\ \E kind \in ExceptionKinds :
          /\ calls' = Append(calls, CallEntry("photo", Walk[pos], TRUE, <<>>))
          /\ Raised(kind, place[1], Walk[pos])
    /\ UNCHANGED <<plan, places_client>>
    /\ UNCHANGED renderVars

\* lines 350-352: get_place_photo_url returns
PhotoReturns ==
    /\ epc = "photo"
    /\ \E photo_url \in PhotoResults :
          /\ calls' = Append(calls, CallEntry("photo", Walk[pos], FALSE, <<>>))
          /\ Finish(IF TruthyStr(photo_url)
                    THEN [place[1] EXCEPT !.photo_url = photo_url]
                    ELSE place[1],
                    Walk[pos])
    /\ UNCHANGED <<plan, places_client>>
    /\ UNCHANGED renderVars

\* line 311: return places
ReturnPlaces ==
    /\ epc = "loop"
    /\ pos > Len(Walk)
    /\ epc' = "done"
    /\ UNCHANGED <<plan, places_client, pos, place, result, kept, calls,
                   escaped>>
    /\ UNCHANGED renderVars

ExtractNext ==
    \/ ReturnNoPlaces
    \/ BeginWalk
    \/ ActivityWithoutLookup
    \/ SearchRaises
    \/ SearchReturns
    \/ PhotoRaises
    \/ PhotoReturns
    \/ ReturnPlaces

-----------------------------------------------------------------------------
(* Specifications *)

InitRender == RenderInit /\ ExtractIdle

\* one call of create_itinerary_map
SpecRender == InitRender /\ [][RenderNext]_vars

InitExtract == ExtractInit /\ RenderIdle

\* one call of extract_places_from_plan
SpecExtract == InitExtract /\ [][ExtractNext]_vars

-----------------------------------------------------------------------------
(* Properties of create_itinerary_map, under SpecRender *)

\* the records of ps in which both coordinates are present (non-null)
PresentCount(ps) ==
    Cardinality({k \in 1..Len(ps) :
                    ps[k].latitude # None /\ ps[k].longitude # None})

\* no record of ps has both coordinates
NoCoordinates(ps) ==
    \A k \in 1..Len(ps) : ps[k].latitude = None \/ ps[k].longitude = None

\* the days of the filtered places, in order
ValidDays == [k \in 1..Len(valid_places) |-> Get(valid_places[k].day, 1)]

\* the coordinates of the filtered places, in order
ValidCoords ==
    [k \in 1..Len(valid_places) |->
        <<valid_places[k].latitude[1], valid_places[k].longitude[1]>>]

\* the positions at which a maximal run of equal days starts
RunStarts(ds) ==
    {k \in 1..Len(ds) : IF k = 1 THEN TRUE ELSE ds[k] # ds[k - 1]}

\* the last position of the j-th run
RunEnd(ds, starts, j) ==
    IF j = Len(starts) THEN Len(ds) ELSE starts[j + 1] - 1

SegmentsOf(points) ==
    [k \in 1..(Len(points) - 1) |-> <<points[k], points[k + 1]>>]

RECURSIVE AllSegments(_)
AllSegments(lines) ==
    IF lines = <<>> THEN <<>>
    ELSE SegmentsOf(Head(lines).points) \o AllSegments(Tail(lines))

\* C1: when create_itinerary_map has returned, the number of markers equals
\* the number of input records in which latitude and longitude are both
\* present (non-null), a coordinate of 0 degrees counting as present.
C1_MarkerCountIsPresentCount ==
    pc = "done" => Len(markers) = PresentCount(places)

\* C2: for a places input that is empty or has no record with both
\* coordinates, the call goes from its start straight to its return, and the
\* returned map is centered at (48.8566, 2.3522) with the requested
\* zoom_start and holds no marker.
C2_FallbackMap ==
    NoCoordinates(places) =>
        /\ pc \in {"start", "done"}
        /\ pc = "done" =>
              /\ mapLocation = <<Frac(488566, 10000), Frac(23522, 10000)>>
              /\ mapZoom = zoom_start
              /\ markers = <<>>

\* C2 happens: a non-empty input without coordinates, a supplied center and
\* a zoom other than the default, returned
C2_Witness ==
    /\ pc = "done"
    /\ places # <<>>
    /\ NoCoordinates(places)
    /\ center # None
    /\ zoom_start # DefaultZoom
    /\ mapZoom = zoom_start

\* C3 as stated: with a supplied center, for any places input, the returned
\* map's center is the supplied center and the mean is not computed.
C3_SuppliedCenterVerbatim ==
    (pc = "done" /\ center # None) =>
        (mapLocation = center /\ ~meanComputed)

\* C3 as amended: with a supplied center the mean is never computed; the
\* map's center is the supplied center when at least one record passes the
\* coordinate filter (both coordinates non-null and non-zero), and the
\* fallback coordinate when none does (empty input included).
C3_SuppliedCenterUnlessFallback ==
    center # None =>
        /\ ~meanComputed
        /\ pc # "start" =>
              mapLocation =
                  IF \E k \in 1..Len(places) :
                        /\ places[k].latitude # None
                        /\ places[k].latitude[1].num # 0
                        /\ places[k].longitude # None
                        /\ places[k].longitude[1].num # 0
                  THEN center
                  ELSE <<Frac(488566, 10000), Frac(23522, 10000)>>

\* C3 happens: a supplied center and two filtered places, returned
C3_Witness ==
    /\ pc = "done"
    /\ center # None
    /\ Len(valid_places) >= 2
    /\ mapLocation = center

\* C5: for a filtered sequence longer than 1, the polylines drawn are as
\* many as the maximal runs of consecutive records with the same day, and
\* the j-th polyline has the palette colour of the j-th run's day.
C5_OnePolylinePerRun ==
    (pc = "done" /\ Len(valid_places) > 1) =>
        LET starts == sorted(RunStarts(ValidDays))
        IN  /\ Len(polylines) = Len(starts)
            /\ \A j \in 1..Len(starts) :
                  polylines[j].color =
                      day_colors[((ValidDays[starts[j]] - 1) % 7) + 1]

\* C5 happens: days [1, 7, 1] give three polylines
C5_Witness ==
    /\ pc = "done"
    /\ ValidDays = <<1, 7, 1>>
    /\ Len(polylines) = 3

\* C6: the legend has exactly one entry per distinct day of the filtered
\* places, in ascending order of day.
C6_LegendDistinctAscending ==
    pc = "done" =>
        /\ \A j \in 1..(Len(legend) - 1) : legend[j].day < legend[j + 1].day
        /\ {legend[j].day : j \in 1..Len(legend)} = Range(ValidDays)

\* C6 happens: days [7, 1, 7] (three runs) give the two entries Day 1, Day 7
C6_Witness ==
    /\ pc = "done"
    /\ ValidDays = <<7, 1, 7>>
    /\ Len(polylines) = 3
    /\ [j \in 1..Len(legend) |-> legend[j].day] = <<1, 7>>

\* C7: the k-th marker has the palette colour at index (day - 1) mod 7 of the
\* k-th filtered place's day: days 1 and 8 the first colour, days 7 and 14
\* the seventh.
C7_MarkerColourWraps ==
    \A k \in 1..Len(markers) :
        /\ markers[k].color = day_colors[((ValidDays[k] - 1) % 7) + 1]
        /\ ValidDays[k] \in {1, 8} => markers[k].color = "#e74c3c"
        /\ ValidDays[k] \in {7, 14} => markers[k].color = "#e91e63"

\* C7 happens: markers of days 8 and 14 with the colours of days 1 and 7
C7_Witness ==
    /\ pc = "done"
    /\ \E j, k \in 1..Len(markers) :
          /\ ValidDays[j] = 8 /\ markers[j].color = "#e74c3c"
          /\ ValidDays[k] = 14 /\ markers[k].color = "#e91e63"

\* C9: the first polyline's points are the first run's coordinates in input
\* order; every later polyline's points are the last coordinate of the
\* previous run followed by its own run's coordinates; and the segments of
\* all polylines, in order, are exactly the pairs of adjacent filtered
\* records, each once.
C9_PolylinesChainRuns ==
    (pc = "done" /\ Len(valid_places) > 1) =>
        LET starts == sorted(RunStarts(ValidDays))
        IN  /\ Len(polylines) = Len(starts)
            /\ \A j \in 1..Len(starts) :
                  polylines[j].points =
                      SubSeq(ValidCoords,
                             IF j = 1 THEN 1 ELSE starts[j] - 1,
                             RunEnd(ValidDays, starts, j))
            /\ AllSegments(polylines) = SegmentsOf(ValidCoords)

\* C9 happens: days [1, 7, 7] at different coordinates: a first polyline of
\* one point and a second of three, starting where the first ends
C9_Witness ==
    /\ pc = "done"
    /\ ValidDays = <<1, 7, 7>>
    /\ ValidCoords[1] # ValidCoords[2]
    /\ Len(polylines) = 2
    /\ Len(polylines[2].points) = 3
    /\ polylines[2].points[1] = polylines[1].points[1]

-----------------------------------------------------------------------------
(* Properties of extract_places_from_plan, under SpecExtract *)

SlotNames == {"morning", "afternoon", "evening"}

\* itinerary order: day, then morning < afternoon < evening, then position
Earlier(a, b) ==
    \/ a[1] < b[1]
    \/ a[1] = b[1] /\ a[2] < b[2]
    \/ a[1] = b[1] /\ a[2] = b[2] /\ a[3] < b[3]

\* the places in the itinerary of the activities a lookup is due for: a
\* client is supplied and the activity has a location hint
EligibleAts ==
    IF plan = None \/ ~places_client THEN {}
    ELSE LET it == plan[1].itinerary
         IN  UNION {{<<d, SlotRank(t), k>> :
                        k \in {n \in 1..Len(it[d][t]) :
                                  /\ it[d][t][n].location # None
                                  /\ it[d][t][n].location[1] # ""}} :
                    d \in 1..Len(it), t \in SlotNames}

SearchedAts == {calls[j].at : j \in {n \in 1..Len(calls) : calls[n].op = "search"}}

\* C4: as long as every call to the collaborator has raised, the result is
\* empty and no error has reached the caller.
C4_AlwaysRaisingYieldsEmpty ==
    (\A j \in 1..Len(calls) : calls[j].raised) =>
        (result = <<>> /\ ~escaped /\ epc # "raised")

\* C4 happens: two activities looked up, both searches raised, returned
C4_Witness ==
    /\ epc = "done"
    /\ Len(calls) = 2
    /\ \A j \in 1..Len(calls) : calls[j].raised
    /\ result = <<>>

C10_CallsSequentialInOrder ==
    /\ calls # <<>> => calls[1].op = "search"
    /\ \A j \in 1..(Len(calls) - 1) :
          IF calls[j + 1].op = "photo"
          THEN /\ calls[j].op = "search"
               /\ calls[j].at = calls[j + 1].at
               /\ ~calls[j].raised
               /\ calls[j].nonempty
               /\ calls[j].hasId
          ELSE Earlier(calls[j].at, calls[j + 1].at)
    /\ SearchedAts \subseteq EligibleAts
    /\ epc = "done" => SearchedAts = EligibleAts

\* C10 happens: an afternoon and an evening activity of one day, each
\* searched and then given a photo lookup, in that order
C10_Witness ==
    /\ epc = "done"
    /\ Len(calls) = 4
    /\ calls[1].op = "search" /\ calls[2].op = "photo"
    /\ calls[3].op = "search" /\ calls[4].op = "photo"
    /\ calls[1].at[1] = calls[3].at[1]
    /\ calls[1].at[2] = 2 /\ calls[3].at[2] = 3

====
